---- MODULE Spec2Model ----
(***************************************************************************)
(* Model of torchbiggraph/graph_storages.py: the buffered column writer    *)
(* (BufferedDataset), the shard appender (FileEdgeAppender), the atomic    *)
(* publish protocol (FileEdgeStorage.save_edges_by_appending), the         *)
(* chunked shard reader (load_chunk_of_edges, read_dynamic) and the        *)
(* entity counts and names kept by FileEntityStorage.                      *)
(*                                                                         *)
(* Tensors are sequences of integers.  The writer never branches on the    *)
(* values it stores, only on lengths, so the inputs carry distinct values  *)
(* that identify their position in the stream: any loss, duplication or    *)
(* reordering changes the stored sequence.                                 *)
(***************************************************************************)
EXTENDS Integers, Sequences, FiniteSets, TLC

VARIABLES
    BUFFER_SIZE,   \* BufferedDataset.BUFFER_SIZE (class attribute)
    pc,            \* position of the writer / of the driver of the scenario
    final,         \* the file at get_edges_file(lhs_p, rhs_p), or NoFile
    tmp,           \* the file at tmp_file_path, or NoFile
    datasets,      \* FileEdgeAppender.datasets: name -> BufferedDataset
    log,           \* inputs accepted by the completed calls of the session
    published,     \* the log of the session whose file is at the final path
    finalAtOpen,   \* the file at the final path when the session that is
                   \* open or has failed was opened
    outcome,       \* how the last write session ended
    raised,        \* the body of the open or last session has raised
    ret,           \* what the reader call of the last step returned
    retry,         \* the open or last session found a stale temporary file
    dir,           \* FileEntityStorage.path: NoDir, or file name -> text
    saved          \* the saves to the entity storage that completed

vars == <<BUFFER_SIZE, pc, final, tmp, datasets, log, published,
          finalAtOpen, outcome, raised, ret, retry, dir, saved>>

----------------------------------------------------------------------------
(* Bounds *)

MaxBufferSize == 3     \* capacities 1..MaxBufferSize
MaxChunkLen == 3       \* length of one tensor given to BufferedDataset.append
MaxBufAppends == 4     \* BufferedDataset.append calls in the column scenario
MaxRecords == 2        \* records of one ragged list given to append_tensor_list
MaxRecLen == 3         \* values of one record of a ragged list
MaxRagAppends == 2     \* append_tensor_list calls in the ragged scenario
MaxNumEdges == 6       \* edges of a shard in the reader scenario
MaxNumChunks == 4      \* num_chunks a reader asks for
MaxEdges == 2          \* edges of one edge list given to append_edges
MaxAppends == 2        \* append_edges calls held by the published shard and
                       \* the open session together
MaxSessionChunks == 2  \* num_chunks a reader asks for beside a writer
MaxSaves == 2
MaxPartition == 1
MaxCount == 10
MaxNames == 2

----------------------------------------------------------------------------
(* Values *)

NoFile == [exists |-> FALSE]
NoRet == [op |-> "none"]
NoDir == [exists |-> FALSE]

\* torch.empty: storage the code never reads before writing it
Uninit == -1

FORMAT_VERSION_ATTR == "format_version"
FORMAT_VERSION == 1

EmptyMap == [n \in {} |-> 0]

Put(m, k, v) == [n \in DOMAIN m \cup {k} |-> IF n = k THEN v ELSE m[n]]

RECURSIVE Flatten(_)
Flatten(ss) == IF ss = <<>> THEN <<>> ELSE Head(ss) \o Flatten(Tail(ss))

RECURSIVE SumLen(_)
SumLen(ss) == IF ss = <<>> THEN 0 ELSE Len(Head(ss)) + SumLen(Tail(ss))

\* the tensor of n values following the first `base` values of a stream
Iota(base, n) == [i \in 1..n |-> base + i]

RECURSIVE SumSeq(_)
SumSeq(s) == IF s = <<>> THEN 0 ELSE Head(s) + SumSeq(Tail(s))

\* TensorList with the given record lengths and data values base+1, base+2, ...
MkTensorList(shape, base) ==
    [offsets |-> <<0>> \o [i \in 1..Len(shape) |-> SumSeq(SubSeq(shape, 1, i))],
     data    |-> Iota(base, SumSeq(shape))]

\* the records of a TensorList (spec.md section 3, Ragged List)
Records(tl) ==
    [i \in 1..(Len(tl.offsets) - 1) |->
        SubSeq(tl.data, tl.offsets[i] - tl.offsets[1] + 1,
                        tl.offsets[i + 1] - tl.offsets[1])]

Shapes(maxRecords, maxRecLen) ==
    UNION {[1..n -> 0..maxRecLen] : n \in 0..maxRecords}

\* an h5py file: its attributes, name -> value, its datasets,
\* name -> contents, and whether a handle on it is open for writing
MkFile(attrs, cols) ==
    [exists |-> TRUE, attrs |-> attrs, cols |-> cols, open |-> FALSE]

----------------------------------------------------------------------------
(* BufferedDataset *)

NewBufferedDataset ==
    [dataset       |-> <<>>,
     buffer        |-> [i \in 1..BUFFER_SIZE |-> Uninit],
     buffer_offset |-> 0,
     total_data    |-> 0,
     asserts_ok    |-> TRUE,    \* no assert of flush_buffer has failed
     flushes       |-> <<>>]    \* the chunks flush_buffer logged (line 286)

\* self.buffer[bo:bo+n] = tensor[to:to+n]
CopyIn(buffer, bo, tensor, to, n) ==
    [i \in 1..Len(buffer) |->
        IF i > bo /\ i <= bo + n THEN tensor[to + (i - bo)] ELSE buffer[i]]

\* mutant: writes the whole buffer, not its filled part
flush_buffer_whole(bd, last) ==
    IF last /\ bd.buffer_offset = 0
    THEN bd
    ELSE [bd EXCEPT
            !.asserts_ok = @ /\ (last \/ bd.buffer_offset = BUFFER_SIZE),
            !.dataset = @ \o bd.buffer,
            !.flushes = Append(@, [n |-> bd.buffer_offset, last |-> last]),
            !.buffer_offset = 0]

\* mutant: the last flush writes a chunk even when the buffer is empty
flush_buffer_always(bd, last) ==
    [bd EXCEPT
        !.asserts_ok = @ /\ (last \/ bd.buffer_offset = BUFFER_SIZE),
        !.dataset = @ \o SubSeq(bd.buffer, 1, bd.buffer_offset),
        !.flushes = Append(@, [n |-> bd.buffer_offset, last |-> last]),
        !.buffer_offset = 0]

flush_buffer(bd, last) ==
    IF last /\ bd.buffer_offset = 0
    THEN bd
    ELSE [bd EXCEPT
            !.asserts_ok = @ /\ (last \/ bd.buffer_offset = BUFFER_SIZE),
            !.dataset = @ \o SubSeq(bd.buffer, 1, bd.buffer_offset),
            !.flushes = Append(@, [n |-> bd.buffer_offset, last |-> last]),
            !.buffer_offset = 0]

RECURSIVE append_loop(_, _, _)
append_loop(bd, tensor, tensor_offset) ==
    LET tensor_left == Len(tensor) - tensor_offset
        buffer_left == BUFFER_SIZE - bd.buffer_offset
    IN  IF tensor_left >= buffer_left
        THEN append_loop(
                flush_buffer(
                    [bd EXCEPT
                        !.buffer = CopyIn(@, bd.buffer_offset, tensor,
                                          tensor_offset, buffer_left),
                        !.buffer_offset = @ + buffer_left],
                    FALSE),
                tensor, tensor_offset + buffer_left)
        ELSE [bd EXCEPT
                !.buffer = CopyIn(@, bd.buffer_offset, tensor,
                                  tensor_offset, tensor_left),
                !.buffer_offset = @ + tensor_left]

\* mutant: a tensor that exactly fills the buffer is copied in and not
\* flushed (tensor_left > buffer_left in line 298)
append_fills_buffer(bd, tensor) ==
    IF Len(tensor) = BUFFER_SIZE - bd.buffer_offset
    THEN [bd EXCEPT
            !.buffer = CopyIn(@, bd.buffer_offset, tensor, 0, Len(tensor)),
            !.buffer_offset = @ + Len(tensor),
            !.total_data = @ + Len(tensor)]
    ELSE [append_loop(bd, tensor, 0) EXCEPT !.total_data = @ + Len(tensor)]

\* mutant: total_data counts the tensors, not their values
append_counts_calls(bd, tensor) ==
    [append_loop(bd, tensor, 0) EXCEPT !.total_data = @ + 1]

append(bd, tensor) ==
    [append_loop(bd, tensor, 0) EXCEPT !.total_data = @ + Len(tensor)]

----------------------------------------------------------------------------
(* FileEdgeAppender *)

append_tensor(ds, name, tensor) ==
    LET d1 == IF name \notin DOMAIN ds
              THEN Put(ds, name, NewBufferedDataset) ELSE ds
    IN  [d1 EXCEPT ![name] = append(@, tensor)]

\* mutant: the offsets are not shifted by the data already in the column
append_tensor_list_unshifted(ds, name, tensor_list) ==
    LET offsets_name == name \o "_offsets"
        data_name == name \o "_data"
        d1 == IF offsets_name \notin DOMAIN ds
              THEN Put(ds, offsets_name, append(NewBufferedDataset, <<0>>))
              ELSE ds
        d2 == IF data_name \notin DOMAIN d1
              THEN Put(d1, data_name, NewBufferedDataset) ELSE d1
        offsets == [i \in 1..(Len(tensor_list.offsets) - 1) |->
                       tensor_list.offsets[i + 1]]
        data == tensor_list.data
        d3 == [d2 EXCEPT ![offsets_name] = append(@, offsets)]
    IN  [d3 EXCEPT ![data_name] = append(@, data)]

append_tensor_list(ds, name, tensor_list) ==
    LET offsets_name == name \o "_offsets"
        data_name == name \o "_data"
        d1 == IF offsets_name \notin DOMAIN ds
              THEN Put(ds, offsets_name, append(NewBufferedDataset, <<0>>))
              ELSE ds
        d2 == IF data_name \notin DOMAIN d1
              THEN Put(d1, data_name, NewBufferedDataset) ELSE d1
        offsets == [i \in 1..(Len(tensor_list.offsets) - 1) |->
                       tensor_list.offsets[i + 1] + d2[data_name].total_data]
        data == tensor_list.data
        d3 == [d2 EXCEPT ![offsets_name] = append(@, offsets)]
    IN  [d3 EXCEPT ![data_name] = append(@, data)]

\* mutant: __exit__ closes the file without flushing the writers
exit_flush_none(ds) == ds

\* the body of FileEdgeAppender.__exit__ on the writers
exit_flush(ds) == [n \in DOMAIN ds |-> flush_buffer(ds[n], TRUE)]

\* what the datasets of the open file hold: BufferedDataset.dataset is the
\* h5py dataset of that name in self.hf
OnDisk(ds) == [n \in DOMAIN ds |-> ds[n].dataset]

\* mutant: the ragged lists are written whether or not they carry data
append_edges_prefix_always(ds, edgelist, k) ==
    LET s1 == IF k >= 1
              THEN append_tensor(ds, "lhs", edgelist.lhs.tensor) ELSE ds
        s2 == IF k >= 2
              THEN append_tensor(s1, "rhs", edgelist.rhs.tensor) ELSE s1
        s3 == IF k >= 3
              THEN append_tensor(s2, "rel", edgelist.rel) ELSE s2
        s4 == IF k >= 4
              THEN append_tensor_list(s3, "lhsd", edgelist.lhs.tensor_list)
              ELSE s3
        s5 == IF k >= 5
              THEN append_tensor_list(s4, "rhsd", edgelist.rhs.tensor_list)
              ELSE s4
    IN  s5

\* the first k of the five statements of append_edges
append_edges_prefix(ds, edgelist, k) ==
    LET s1 == IF k >= 1
              THEN append_tensor(ds, "lhs", edgelist.lhs.tensor) ELSE ds
        s2 == IF k >= 2
              THEN append_tensor(s1, "rhs", edgelist.rhs.tensor) ELSE s1
        s3 == IF k >= 3
              THEN append_tensor(s2, "rel", edgelist.rel) ELSE s2
        s4 == IF k >= 4 /\ Len(edgelist.lhs.tensor_list.data) # 0
              THEN append_tensor_list(s3, "lhsd", edgelist.lhs.tensor_list)
              ELSE s3
        s5 == IF k >= 5 /\ Len(edgelist.rhs.tensor_list.data) # 0
              THEN append_tensor_list(s4, "rhsd", edgelist.rhs.tensor_list)
              ELSE s4
    IN  s5

\* the five statements of append_edges
AppendEdgesSteps == 5

append_edges(ds, edgelist) ==
    append_edges_prefix(ds, edgelist, AppendEdgesSteps)

----------------------------------------------------------------------------
(* FileEdgeStorage: the reader *)

\* Dataset.read_direct(dest, source_sel=np.s_[begin:end]) into a buffer of n
\* elements.  The slice is clipped to the dataset; a selection whose length
\* differs from the destination's cannot be broadcast, and an empty
\* selection is rejected (h5py issue 870): both raise.
read_direct(ds, begin, end, n) ==
    LET lo == IF begin < Len(ds) THEN begin ELSE Len(ds)
        hi == IF end < Len(ds) THEN end ELSE Len(ds)
        sel == IF hi > lo THEN hi - lo ELSE 0
    IN  IF sel = 0 \/ sel # n
        THEN [ok |-> FALSE, data |-> <<>>]
        ELSE [ok |-> TRUE, data |-> SubSeq(ds, lo + 1, hi)]

\* mutant: the offsets are returned as they were read
rebase_none(offsets) == offsets

\* line 455: offsets -= int(offsets[0])
rebase(offsets) == [i \in 1..Len(offsets) |-> offsets[i] - offsets[1]]

read_dynamic(hf, key, begin, end) ==
    LET offsets_name == key \o "_offsets"
        data_name == key \o "_data"
    IN  IF ~ ({offsets_name, data_name} \subseteq DOMAIN hf.cols)
        THEN IF end - begin + 1 < 0
        THEN [status |-> "size error", offsets |-> <<>>, data |-> <<>>,
              reads |-> {}]
        ELSE [status  |-> "ok",
              offsets |-> [i \in 1..(end - begin + 1) |-> 0],
              data    |-> <<>>,
              reads   |-> {}]
        ELSE IF end - begin + 1 <= 0
        THEN [status |-> "size error", offsets |-> <<>>, data |-> <<>>,
              reads |-> {}]
        ELSE
        LET rd1 == [name |-> offsets_name, begin |-> begin, end |-> end + 1]
            o == read_direct(hf.cols[offsets_name], begin, end + 1,
                             end - begin + 1)
        IN  IF ~ o.ok
            THEN [status |-> "read error", offsets |-> <<>>, data |-> <<>>,
                  reads |-> {rd1}]
            ELSE
            LET offsets == o.data
                data_begin == offsets[1]
                data_end == offsets[Len(offsets)]
                rd2 == [name |-> data_name, begin |-> data_begin,
                        end |-> data_end]
                d == IF data_end - data_begin > 0
                     THEN read_direct(hf.cols[data_name], data_begin,
                                      data_end, data_end - data_begin)
                     ELSE [ok |-> TRUE, data |-> <<>>]
                reads == IF data_end - data_begin > 0
                         THEN {rd1, rd2} ELSE {rd1}
            IN  IF data_end - data_begin < 0
                THEN [status |-> "size error", offsets |-> <<>>,
                      data |-> <<>>, reads |-> reads]
                ELSE IF ~ d.ok
                THEN [status |-> "read error", offsets |-> <<>>,
                      data |-> <<>>, reads |-> reads]
                ELSE [status  |-> "ok",
                      offsets |-> rebase(offsets),
                      data    |-> d.data,
                      reads   |-> reads]

\* mutant: the chunk starts at a multiple of the floored chunk size
chunk_begin_floordiv(chunk_idx, num_edges, num_chunks) ==
    chunk_idx * (num_edges \div num_chunks)

\* mutant: round() in place of int()
chunk_begin_round(chunk_idx, num_edges, num_chunks) ==
    (2 * chunk_idx * num_edges + num_chunks) \div (2 * num_chunks)

\* int(chunk_idx * num_edges / num_chunks): the product is exact, the true
\* division rounds the exact quotient to the nearest double and int()
\* truncates; for the non-negative operands below 2^53 that a shard can
\* have this is the floor of the quotient.
chunk_begin(chunk_idx, num_edges, num_chunks) ==
    (chunk_idx * num_edges) \div num_chunks

\* mutant: integer floor division before the multiplication
chunk_end_floordiv(chunk_idx, num_edges, num_chunks) ==
    (chunk_idx + 1) * (num_edges \div num_chunks)

chunk_end(chunk_idx, num_edges, num_chunks) ==
    ((chunk_idx + 1) * num_edges) \div num_chunks

LoadError(chunk_idx, num_chunks, what) ==
    [op |-> "load_chunk_of_edges", chunk_idx |-> chunk_idx,
     num_chunks |-> num_chunks, status |-> what, reads |-> {}]

\* mutant: an absent attribute defaults to the supported version
version_mismatch_default(attrs) ==
    /\ FORMAT_VERSION_ATTR \in DOMAIN attrs
    /\ attrs[FORMAT_VERSION_ATTR] # FORMAT_VERSION

\* hf.attrs.get(FORMAT_VERSION_ATTR, None) != FORMAT_VERSION
version_mismatch(attrs) ==
    \/ FORMAT_VERSION_ATTR \notin DOMAIN attrs
    \/ attrs[FORMAT_VERSION_ATTR] # FORMAT_VERSION

\* mutant: read_direct is called whatever the chunk size
read_column_unguarded(file, name, begin, end) ==
    LET r == read_direct(file.cols[name], begin, end, end - begin)
    IN  [ok |-> r.ok, data |-> r.data,
         reads |-> {[name |-> name, begin |-> begin, end |-> end]}]

\* lines 413-421: the tensor of chunk_size values, filled by read_direct
\* only when chunk_size > 0
read_column(file, name, begin, end) ==
    IF end - begin > 0
    THEN LET r == read_direct(file.cols[name], begin, end, end - begin)
         IN  [ok |-> r.ok, data |-> r.data,
              reads |-> {[name |-> name, begin |-> begin, end |-> end]}]
    ELSE [ok |-> TRUE, data |-> <<>>, reads |-> {}]

load_chunk_of_edges(file, chunk_idx, num_chunks) ==
    IF ~ file.exists
    THEN LoadError(chunk_idx, num_chunks, "RuntimeError: does not exist")
    ELSE IF version_mismatch(file.attrs)
    THEN LoadError(chunk_idx, num_chunks, "RuntimeError: version mismatch")
    ELSE IF ~ ({"lhs", "rhs", "rel"} \subseteq DOMAIN file.cols)
    THEN LoadError(chunk_idx, num_chunks, "KeyError")
    ELSE
    LET num_edges == Len(file.cols["rel"])
        begin == chunk_begin(chunk_idx, num_edges, num_chunks)
        end == chunk_end(chunk_idx, num_edges, num_chunks)
        lhs == read_column(file, "lhs", begin, end)
        rhs == read_column(file, "rhs", begin, end)
        rel == read_column(file, "rel", begin, end)
        lhsd == read_dynamic(file, "lhsd", begin, end)
        rhsd == read_dynamic(file, "rhsd", begin, end)
        reads == lhs.reads \cup rhs.reads \cup rel.reads
    IN  IF ~ (lhs.ok /\ rhs.ok /\ rel.ok)
        THEN [LoadError(chunk_idx, num_chunks, "read error")
                 EXCEPT !.reads = reads]
        ELSE IF lhsd.status # "ok"
        THEN [LoadError(chunk_idx, num_chunks, "read error")
                 EXCEPT !.reads = reads \cup lhsd.reads]
        ELSE IF rhsd.status # "ok"
        THEN [LoadError(chunk_idx, num_chunks, "read error")
                 EXCEPT !.reads = reads \cup lhsd.reads \cup rhsd.reads]
        ELSE [op |-> "load_chunk_of_edges", chunk_idx |-> chunk_idx,
              num_chunks |-> num_chunks, status |-> "ok",
              begin |-> begin, end |-> end,
              lhs |-> [tensor |-> lhs.data,
                       tensor_list |-> [offsets |-> lhsd.offsets,
                                        data |-> lhsd.data]],
              rhs |-> [tensor |-> rhs.data,
                       tensor_list |-> [offsets |-> rhsd.offsets,
                                        data |-> rhsd.data]],
              rel |-> rel.data,
              reads |-> reads \cup lhsd.reads \cup rhsd.reads]

\* AbstractEdgeStorage.load_edges: chunk 0 of 1
load_edges(file) == load_chunk_of_edges(file, 0, 1)

has_edges(file) == file.exists

VersionAttrs(v) == [a \in {FORMAT_VERSION_ATTR} |-> v]

\* AbstractEdgeStorage.save_edges: one session, one append_edges call
save_edges(edges) ==
    MkFile(VersionAttrs(FORMAT_VERSION),
           OnDisk(exit_flush(append_edges(EmptyMap, edges))))

----------------------------------------------------------------------------
(* Edge lists given to the writer *)

\* n edges that follow e earlier edges of the stream; the ragged lists of
\* the endpoints have the given record lengths and follow dl / dr earlier
\* data values
MkEdgeList(n, lshape, rshape, e, dl, dr) ==
    [lhs |-> [tensor |-> Iota(e, n),
              tensor_list |-> MkTensorList(lshape, 300 + dl)],
     rhs |-> [tensor |-> Iota(100 + e, n),
              tensor_list |-> MkTensorList(rshape, 400 + dr)],
     rel |-> Iota(200 + e, n)]

\* record lengths of an endpoint's ragged list: no data at all, or records
\* of 1, 0, 1, ... values
RaggedShape(n, hasData) == [i \in 1..n |-> IF hasData THEN i % 2 ELSE 0]

RECURSIVE LhsDataLen(_)
LhsDataLen(es) ==
    IF es = <<>> THEN 0
    ELSE Len(Head(es).lhs.tensor_list.data) + LhsDataLen(Tail(es))

RECURSIVE RhsDataLen(_)
RhsDataLen(es) ==
    IF es = <<>> THEN 0
    ELSE Len(Head(es).rhs.tensor_list.data) + RhsDataLen(Tail(es))

RECURSIVE NumEdges(_)
NumEdges(es) ==
    IF es = <<>> THEN 0 ELSE Len(Head(es).rel) + NumEdges(Tail(es))

\* the edge lists a caller may append after the edge lists es
EdgeListsAfter(es, maxEdges) ==
    {MkEdgeList(n, RaggedShape(n, l), RaggedShape(n, r),
                NumEdges(es), LhsDataLen(es), RhsDataLen(es)) :
        n \in 0..maxEdges, l \in BOOLEAN, r \in BOOLEAN}

----------------------------------------------------------------------------
(* Scenario: one BufferedDataset, a sequence of append calls, a last flush *)

ColName == "col"

InitBuffer ==
    /\ BUFFER_SIZE \in 1..MaxBufferSize
    /\ pc = "appending"
    /\ datasets = [n \in {ColName} |-> NewBufferedDataset]
    /\ log = <<>>
    /\ final = NoFile
    /\ tmp = NoFile
    /\ published = <<>>
    /\ finalAtOpen = NoFile
    /\ outcome = "none"
    /\ raised = FALSE
    /\ ret = NoRet
    /\ retry = FALSE
    /\ dir = NoDir
    /\ saved = <<>>

BufAppend(n) ==
    /\ pc = "appending"
    /\ Len(log) < MaxBufAppends
    /\ LET tensor == Iota(SumLen(log), n)
       IN  /\ datasets' = [datasets EXCEPT ![ColName] = append(@, tensor)]
           /\ log' = Append(log, tensor)
    /\ UNCHANGED <<BUFFER_SIZE, pc, final, tmp, published, finalAtOpen,
                   outcome, raised, ret>>
    /\ UNCHANGED <<retry, dir, saved>>

BufFlushLast ==
    /\ pc = "appending"
    /\ datasets' = [datasets EXCEPT ![ColName] = flush_buffer(@, TRUE)]
    /\ pc' = "flushed"
    /\ UNCHANGED <<BUFFER_SIZE, final, tmp, log, published, finalAtOpen,
                   outcome, raised, ret>>
    /\ UNCHANGED <<retry, dir, saved>>

NextBuffer ==
    \/ \E n \in 0..MaxChunkLen : BufAppend(n)
    \/ BufFlushLast

SpecBuffer == InitBuffer /\ [][NextBuffer]_vars

----------------------------------------------------------------------------
(* Scenario: append_tensor_list calls to one name of an open appender,     *)
(* __exit__, then read_dynamic on the closed file                          *)

RagName == "lhsd"

InitRagged ==
    /\ BUFFER_SIZE \in 1..MaxBufferSize
    /\ pc = "appending"
    /\ datasets = EmptyMap
    /\ tmp = [MkFile([a \in {FORMAT_VERSION_ATTR} |-> FORMAT_VERSION],
                     EmptyMap) EXCEPT !.open = TRUE]
    /\ log = <<>>
    /\ final = NoFile
    /\ published = <<>>
    /\ finalAtOpen = NoFile
    /\ outcome = "none"
    /\ raised = FALSE
    /\ ret = NoRet
    /\ retry = FALSE
    /\ dir = NoDir
    /\ saved = <<>>

\* the number of data values of the ragged lists of a log
RECURSIVE DataLen(_)
DataLen(tls) ==
    IF tls = <<>> THEN 0 ELSE Len(Head(tls).data) + DataLen(Tail(tls))

RagAppend(shape) ==
    /\ pc = "appending"
    /\ Len(log) < MaxRagAppends
    /\ LET tl == MkTensorList(shape, DataLen(log))
           ds == append_tensor_list(datasets, RagName, tl)
       IN  /\ datasets' = ds
           /\ tmp' = [tmp EXCEPT !.cols = OnDisk(ds)]
           /\ log' = Append(log, tl)
    /\ UNCHANGED <<BUFFER_SIZE, pc, final, published, finalAtOpen,
                   outcome, raised, ret>>
    /\ UNCHANGED <<retry, dir, saved>>

RagExit ==
    /\ pc = "appending"
    /\ tmp' = [tmp EXCEPT !.cols = OnDisk(exit_flush(datasets)),
                          !.open = FALSE]
    /\ datasets' = EmptyMap
    /\ pc' = "closed"
    /\ UNCHANGED <<BUFFER_SIZE, final, log, published, finalAtOpen,
                   outcome, raised, ret>>
    /\ UNCHANGED <<retry, dir, saved>>

\* the number of records a ragged column holds
NumRecords(tls) ==
    IF tls = <<>> THEN 0
    ELSE SumSeq([i \in 1..Len(tls) |-> Len(tls[i].offsets) - 1])

RagRead(begin, end) ==
    /\ pc = "closed"
    /\ begin <= end
    /\ end <= NumRecords(log)
    /\ ret' = [op |-> "read_dynamic", begin |-> begin, end |-> end,
               value |-> read_dynamic(tmp, RagName, begin, end)]
    /\ UNCHANGED <<BUFFER_SIZE, pc, final, tmp, datasets, log, published,
                   finalAtOpen, outcome, raised>>
    /\ UNCHANGED <<retry, dir, saved>>

NextRagged ==
    \/ \E shape \in Shapes(MaxRecords, MaxRecLen) : RagAppend(shape)
    \/ RagExit
    \/ \E begin, end \in 0..(MaxRecords * MaxRagAppends) : RagRead(begin, end)

SpecRagged == InitRagged /\ [][NextRagged]_vars

----------------------------------------------------------------------------
(* Readers: any number of them, at any time *)

HasEdges ==
    /\ ret' = [op |-> "has_edges", value |-> has_edges(final)]
    /\ UNCHANGED <<BUFFER_SIZE, pc, final, tmp, datasets, log, published,
                   finalAtOpen, outcome, raised>>
    /\ UNCHANGED <<retry, dir, saved>>

LoadChunk(chunk_idx, num_chunks) ==
    /\ chunk_idx < num_chunks
    /\ ret' = load_chunk_of_edges(final, chunk_idx, num_chunks)
    /\ UNCHANGED <<BUFFER_SIZE, pc, final, tmp, datasets, log, published,
                   finalAtOpen, outcome, raised>>
    /\ UNCHANGED <<retry, dir, saved>>

----------------------------------------------------------------------------
(* Scenario: readers of a storage that holds no shard, a shard saved by    *)
(* save_edges, or such a shard stamped by another format version           *)

InitReader ==
    /\ BUFFER_SIZE \in 1..MaxBufferSize
    /\ pc = "idle"
    /\ datasets = EmptyMap
    /\ tmp = NoFile
    /\ log = <<>>
    /\ final = NoFile
    /\ published = <<>>
    /\ finalAtOpen = NoFile
    /\ outcome = "none"
    /\ raised = FALSE
    /\ ret = NoRet
    /\ retry = FALSE
    /\ dir = NoDir
    /\ saved = <<>>

\* the shard is saved: by save_edges, or by a writer of another format
\* version, or by one that stamps no version
InstallShard(edges, attrs) ==
    /\ pc = "idle"
    /\ final' = [save_edges(edges) EXCEPT !.attrs = attrs]
    /\ published' = <<edges>>
    /\ pc' = "installed"
    /\ ret' = NoRet
    /\ UNCHANGED <<BUFFER_SIZE, tmp, datasets, log, finalAtOpen, outcome, raised>>
    /\ UNCHANGED <<retry, dir, saved>>

NextReader ==
    \/ \E e \in EdgeListsAfter(<<>>, MaxNumEdges) :
       \E attrs \in {EmptyMap, VersionAttrs(FORMAT_VERSION),
                      VersionAttrs(FORMAT_VERSION + 1)} :
          InstallShard(e, attrs)
    \/ HasEdges
    \/ \E n \in 1..MaxNumChunks : \E i \in 0..(n - 1) : LoadChunk(i, n)

SpecReader == InitReader /\ [][NextReader]_vars

----------------------------------------------------------------------------
(* The write session of save_edges_by_appending, beside the readers *)

Init ==
    /\ BUFFER_SIZE \in 1..MaxBufferSize
    /\ pc = "idle"
    /\ datasets = EmptyMap
    /\ tmp = NoFile
    /\ log = <<>>
    /\ final = NoFile
    /\ published = <<>>
    /\ finalAtOpen = NoFile
    /\ outcome = "none"
    /\ raised = FALSE
    /\ ret = NoRet
    /\ retry = FALSE
    /\ dir = NoDir
    /\ saved = <<>>

\* Open without lines 467-468: a stale temporary file is kept and written on
Open_keeps_stale ==
    /\ pc = "idle"
    /\ tmp' = IF tmp.exists
              THEN [tmp EXCEPT !.open = TRUE]
              ELSE [MkFile(EmptyMap, EmptyMap) EXCEPT !.open = TRUE]
    /\ datasets' = EmptyMap
    /\ log' = <<>>
    /\ finalAtOpen' = final
    /\ outcome' = "open"
    /\ raised' = FALSE
    /\ pc' = "opened"
    /\ UNCHANGED <<BUFFER_SIZE, final, published>>
    /\ ret' = NoRet
    /\ retry' = tmp.exists
    /\ UNCHANGED <<dir, saved>>

\* lines 465-469: unlink a stale temporary file, create the file, enter the
\* appender
Open ==
    /\ pc = "idle"
    /\ tmp' = [MkFile(EmptyMap, EmptyMap) EXCEPT !.open = TRUE]
    /\ datasets' = EmptyMap
    /\ log' = <<>>
    /\ finalAtOpen' = final
    /\ outcome' = "open"
    /\ raised' = FALSE
    /\ pc' = "opened"
    /\ UNCHANGED <<BUFFER_SIZE, final, published>>
    /\ ret' = NoRet
    /\ retry' = tmp.exists
    /\ UNCHANGED <<dir, saved>>

\* mutant: the body is entered without the stamp of line 470
Stamp_skipped ==
    /\ pc = "opened"
    /\ pc' = "body"
    /\ UNCHANGED <<BUFFER_SIZE, final, tmp, datasets, log, published,
                   finalAtOpen, outcome, raised>>
    /\ ret' = NoRet
    /\ UNCHANGED <<retry, dir, saved>>

\* line 470
Stamp ==
    /\ pc = "opened"
    /\ tmp' = [tmp EXCEPT
                  !.attrs = Put(@, FORMAT_VERSION_ATTR, FORMAT_VERSION)]
    /\ pc' = "body"
    /\ UNCHANGED <<BUFFER_SIZE, final, datasets, log, published,
                   finalAtOpen, outcome, raised>>
    /\ ret' = NoRet
    /\ UNCHANGED <<retry, dir, saved>>

AppendEdges(edgelist) ==
    /\ pc = "body"
    /\ Len(published) + Len(log) < MaxAppends
    /\ LET ds == append_edges(datasets, edgelist)
       IN  /\ datasets' = ds
           /\ tmp' = [tmp EXCEPT !.cols = OnDisk(ds)]
    /\ log' = Append(log, edgelist)
    /\ UNCHANGED <<BUFFER_SIZE, pc, final, published, finalAtOpen,
                   outcome, raised>>
    /\ ret' = NoRet
    /\ UNCHANGED <<retry, dir, saved>>

\* append_edges raises when it evaluates the argument of its statement
\* k + 1 (an edge list that lacks that part): the first k statements ran
AppendEdgesRaise(edgelist, k) ==
    /\ pc = "body"
    /\ Len(published) + Len(log) < MaxAppends
    /\ LET ds == append_edges_prefix(datasets, edgelist, k)
       IN  /\ datasets' = ds
           /\ tmp' = [tmp EXCEPT !.cols = OnDisk(ds)]
    /\ pc' = "raised"
    /\ raised' = TRUE
    /\ UNCHANGED <<BUFFER_SIZE, final, log, published, finalAtOpen,
                   outcome>>
    /\ ret' = NoRet
    /\ UNCHANGED <<retry, dir, saved>>

\* the body of the with statement raises outside append_edges
BodyRaise ==
    /\ pc = "body"
    /\ pc' = "raised"
    /\ raised' = TRUE
    /\ UNCHANGED <<BUFFER_SIZE, final, tmp, datasets, log, published,
                   finalAtOpen, outcome>>
    /\ ret' = NoRet
    /\ UNCHANGED <<retry, dir, saved>>

BodyReturn ==
    /\ pc = "body"
    /\ pc' = "returned"
    /\ UNCHANGED <<BUFFER_SIZE, final, tmp, datasets, log, published,
                   finalAtOpen, outcome, raised>>
    /\ ret' = NoRet
    /\ UNCHANGED <<retry, dir, saved>>

\* mutant: __exit__ swallows the error of the body
AppenderExit_swallows ==
    /\ pc \in {"raised", "returned"}
    /\ tmp' = [tmp EXCEPT !.cols = OnDisk(exit_flush(datasets)),
                          !.open = FALSE]
    /\ datasets' = EmptyMap
    /\ pc' = "closed_ok"
    /\ UNCHANGED <<BUFFER_SIZE, final, log, published, finalAtOpen,
                   outcome, raised>>
    /\ ret' = NoRet
    /\ UNCHANGED <<retry, dir, saved>>

\* mutant: when the body raised, the file is closed without the flushes
AppenderExit_flush_on_success ==
    /\ pc \in {"raised", "returned"}
    /\ tmp' = IF pc = "raised"
              THEN [tmp EXCEPT !.open = FALSE]
              ELSE [tmp EXCEPT !.cols = OnDisk(exit_flush(datasets)),
                               !.open = FALSE]
    /\ datasets' = EmptyMap
    /\ pc' = IF pc = "raised" THEN "closed_err" ELSE "closed_ok"
    /\ UNCHANGED <<BUFFER_SIZE, final, log, published, finalAtOpen,
                   outcome, raised>>
    /\ ret' = NoRet
    /\ UNCHANGED <<retry, dir, saved>>

\* FileEdgeAppender.__exit__, then h5py.File.__exit__
AppenderExit ==
    /\ pc \in {"raised", "returned"}
    /\ tmp' = [tmp EXCEPT !.cols = OnDisk(exit_flush(datasets)),
                          !.open = FALSE]
    /\ datasets' = EmptyMap
    /\ pc' = IF pc = "raised" THEN "closed_err" ELSE "closed_ok"
    /\ UNCHANGED <<BUFFER_SIZE, final, log, published, finalAtOpen,
                   outcome, raised>>
    /\ ret' = NoRet
    /\ UNCHANGED <<retry, dir, saved>>

\* line 472
Rename ==
    /\ pc = "closed_ok"
    /\ final' = tmp
    /\ tmp' = NoFile
    /\ published' = log
    /\ outcome' = "published"
    /\ pc' = "idle"
    /\ finalAtOpen' = NoFile
    /\ UNCHANGED <<BUFFER_SIZE, datasets, log, raised>>
    /\ ret' = NoRet
    /\ UNCHANGED <<retry, dir, saved>>

\* the error leaves the generator: line 472 is not reached
Propagate ==
    /\ pc = "closed_err"
    /\ outcome' = "failed"
    /\ pc' = "idle"
    /\ UNCHANGED <<BUFFER_SIZE, final, tmp, datasets, log, published,
                   finalAtOpen, raised>>
    /\ ret' = NoRet
    /\ UNCHANGED <<retry, dir, saved>>

Next ==
    \/ Open
    \/ Stamp
    \/ \E e \in EdgeListsAfter(log, MaxEdges) : AppendEdges(e)
    \/ \E e \in EdgeListsAfter(log, MaxEdges) :
       \E k \in 1..(AppendEdgesSteps - 1) : AppendEdgesRaise(e, k)
    \/ BodyRaise
    \/ BodyReturn
    \/ AppenderExit
    \/ Rename
    \/ Propagate
    \/ HasEdges
    \/ \E n \in 1..MaxSessionChunks : \E i \in 0..(n - 1) : LoadChunk(i, n)

Spec == Init /\ [][Next]_vars

----------------------------------------------------------------------------
(* FileEntityStorage: entity counts and entity names, one text file each   *)
(* in the directory self.path.  A text is a sequence of characters.        *)

EmptyDir == [exists |-> TRUE, files |-> EmptyMap]

Digits == <<"0", "1", "2", "3", "4", "5", "6", "7", "8", "9">>

Whitespace == {" ", "\n"}

\* f"{n}" of a non-negative int: its decimal digits
RECURSIVE FormatInt(_)
FormatInt(n) ==
    IF n < 10
    THEN <<Digits[n + 1]>>
    ELSE FormatInt(n \div 10) \o <<Digits[(n % 10) + 1]>>

\* the same digits as a string, for file names
RECURSIVE IntStr(_)
IntStr(n) ==
    IF n < 10
    THEN Digits[n + 1]
    ELSE IntStr(n \div 10) \o Digits[(n % 10) + 1]

\* str.strip()
RECURSIVE Strip(_)
Strip(t) ==
    IF t = <<>> THEN t
    ELSE IF t[1] \in Whitespace THEN Strip(Tail(t))
    ELSE IF t[Len(t)] \in Whitespace THEN Strip(SubSeq(t, 1, Len(t) - 1))
    ELSE t

RECURSIVE DigitsValue(_)
DigitsValue(t) ==
    IF t = <<>>
    THEN 0
    ELSE 10 * DigitsValue(SubSeq(t, 1, Len(t) - 1))
         + (CHOOSE d \in 0..9 : Digits[d + 1] = t[Len(t)])

\* int(t) of a text without sign: the value, or ValueError
ParseInt(t) ==
    IF t # <<>> /\ \A i \in 1..Len(t) : \E d \in 1..10 : Digits[d] = t[i]
    THEN [status |-> "ok", value |-> DigitsValue(t)]
    ELSE [status |-> "ValueError"]

\* json.dump(names, tf, indent=4) of a list of strings without characters
\* that need escaping: "[]", or one quoted name per line, indented by four
\* spaces and separated by commas
Indent == <<" ", " ", " ", " ">>

RECURSIVE json_items(_, _)
json_items(names, i) ==
    IF i > Len(names)
    THEN <<"\n", "]">>
    ELSE (IF i = 1 THEN <<"\n">> ELSE <<",", "\n">>)
         \o Indent \o <<"\"">> \o names[i] \o <<"\"">>
         \o json_items(names, i + 1)

json_dump(names) ==
    IF names = <<>> THEN <<"[", "]">> ELSE <<"[">> \o json_items(names, 1)

JSONDecodeError == [status |-> "JSONDecodeError"]

RECURSIVE SkipWhitespace(_, _)
SkipWhitespace(t, i) ==
    IF i <= Len(t) /\ t[i] \in Whitespace THEN SkipWhitespace(t, i + 1) ELSE i

\* the characters from i up to the closing quote
RECURSIVE ScanString(_, _, _)
ScanString(t, i, acc) ==
    IF i > Len(t) THEN [ok |-> FALSE]
    ELSE IF t[i] = "\"" THEN [ok |-> TRUE, value |-> acc, next |-> i + 1]
    ELSE ScanString(t, i + 1, Append(acc, t[i]))

\* the strings of a JSON array from i, where a string is expected
RECURSIVE ParseItems(_, _, _)
ParseItems(t, i, acc) ==
    LET j == SkipWhitespace(t, i)
    IN  IF j > Len(t) \/ t[j] # "\"" THEN [ok |-> FALSE]
        ELSE LET str == ScanString(t, j + 1, <<>>)
             IN  IF ~ str.ok THEN [ok |-> FALSE]
                 ELSE LET k == SkipWhitespace(t, str.next)
                      IN  IF k > Len(t) THEN [ok |-> FALSE]
                          ELSE IF t[k] = ","
                          THEN ParseItems(t, k + 1, Append(acc, str.value))
                          ELSE IF t[k] = "]"
                          THEN [ok |-> TRUE,
                                value |-> Append(acc, str.value),
                                next |-> k + 1]
                          ELSE [ok |-> FALSE]

\* json.load(tf) of a text that holds a list of strings
json_load(t) ==
    LET i == SkipWhitespace(t, 1)
    IN  IF i > Len(t) \/ t[i] # "[" THEN JSONDecodeError
        ELSE LET j == SkipWhitespace(t, i + 1)
                 arr == IF j <= Len(t) /\ t[j] = "]"
                        THEN [ok |-> TRUE, value |-> <<>>, next |-> j + 1]
                        ELSE ParseItems(t, i + 1, <<>>)
             IN  IF arr.ok /\ SkipWhitespace(t, arr.next) > Len(t)
                 THEN [status |-> "ok", value |-> arr.value]
                 ELSE JSONDecodeError

\* get_count_file without the partition in the file name
get_count_file_no_partition(entity_name, partition) ==
    "entity_count_" \o entity_name \o ".txt"

\* line 189
get_count_file(entity_name, partition) ==
    "entity_count_" \o entity_name \o "_" \o IntStr(partition) \o ".txt"

\* line 192
get_names_file(entity_name, partition) ==
    "entity_names_" \o entity_name \o "_" \o IntStr(partition) \o ".json"

\* line 195: mkdir(parents=True, exist_ok=True)
prepare(d) == IF d.exists THEN d ELSE EmptyDir

\* Path.is_file()
is_file(d, path) == d.exists /\ path \in DOMAIN d.files

\* path.open("wt") and one write: FileNotFoundError when the directory is
\* missing, else the file holds the text
write_text(d, path, text) ==
    IF d.exists
    THEN [status |-> "ok", dir |-> [d EXCEPT !.files = Put(@, path, text)]]
    ELSE [status |-> "FileNotFoundError", dir |-> d]

\* lines 153-155
save_count(d, path, count) == write_text(d, path, FormatInt(count) \o <<"\n">>)

\* lines 158-163
load_count(d, path) ==
    IF is_file(d, path)
    THEN ParseInt(Strip(d.files[path]))
    ELSE [status |-> "CouldNotLoadData"]

\* lines 166-168
save_names(d, path, names) == write_text(d, path, json_dump(names))

\* lines 171-176
load_names(d, path) ==
    IF is_file(d, path)
    THEN json_load(d.files[path])
    ELSE [status |-> "CouldNotLoadData"]

\* lines 197-198
has_count(d, entity_name, partition) ==
    is_file(d, get_count_file(entity_name, partition))

\* lines 206-207
has_names(d, entity_name, partition) ==
    is_file(d, get_names_file(entity_name, partition))

----------------------------------------------------------------------------
(* Scenario: prepare, saves and loads of counts and names on a             *)
(* FileEntityStorage, for a few entity types and partitions                *)

\* an entity type whose name ends like a partition suffix, and one without
EntityNames == {"e", "e_1"}

Partitions == 0..MaxPartition

\* a one-digit and a two-digit count
Counts == {0, MaxCount}

\* the i-th entity name of a partition: "n" and the digits of i
NameOf(i) == <<"n">> \o FormatInt(i)

NameLists == {[i \in 1..n |-> NameOf(i)] : n \in 0..MaxNames}

InitEntity ==
    /\ BUFFER_SIZE \in {MaxBufferSize}
    /\ pc = "idle"
    /\ datasets = EmptyMap
    /\ tmp = NoFile
    /\ log = <<>>
    /\ final = NoFile
    /\ published = <<>>
    /\ finalAtOpen = NoFile
    /\ outcome = "none"
    /\ raised = FALSE
    /\ ret = NoRet
    /\ retry = FALSE
    /\ dir = NoDir
    /\ saved = <<>>

Prepare ==
    /\ dir' = prepare(dir)
    /\ ret' = NoRet
    /\ UNCHANGED <<BUFFER_SIZE, pc, final, tmp, datasets, log, published,
                   finalAtOpen, outcome, raised, retry, saved>>

\* a save call: the directory after it, and the save recorded if it
\* completed
Save(kind, entity_name, partition, value, w) ==
    /\ Len(saved) < MaxSaves
    /\ dir' = w.dir
    /\ saved' = IF w.status = "ok"
                THEN Append(saved, [kind |-> kind,
                                    entity_name |-> entity_name,
                                    partition |-> partition,
                                    value |-> value])
                ELSE saved
    /\ ret' = [op |-> "save", status |-> w.status]
    /\ UNCHANGED <<BUFFER_SIZE, pc, final, tmp, datasets, log, published,
                   finalAtOpen, outcome, raised, retry>>

\* lines 200-201
SaveCount(entity_name, partition, count) ==
    Save("count", entity_name, partition, count,
         save_count(dir, get_count_file(entity_name, partition), count))

\* lines 209-210
SaveNames(entity_name, partition, names) ==
    Save("names", entity_name, partition, names,
         save_names(dir, get_names_file(entity_name, partition), names))

Read(op, kind, entity_name, partition, result) ==
    /\ ret' = [op |-> op, kind |-> kind, entity_name |-> entity_name,
               partition |-> partition, result |-> result]
    /\ UNCHANGED <<BUFFER_SIZE, pc, final, tmp, datasets, log, published,
                   finalAtOpen, outcome, raised, retry, dir, saved>>

\* lines 197-198
HasCount(entity_name, partition) ==
    Read("has", "count", entity_name, partition,
         has_count(dir, entity_name, partition))

\* lines 203-204
LoadCount(entity_name, partition) ==
    Read("load", "count", entity_name, partition,
         load_count(dir, get_count_file(entity_name, partition)))

\* lines 206-207
HasNames(entity_name, partition) ==
    Read("has", "names", entity_name, partition,
         has_names(dir, entity_name, partition))

\* lines 212-213
LoadNames(entity_name, partition) ==
    Read("load", "names", entity_name, partition,
         load_names(dir, get_names_file(entity_name, partition)))

NextEntity ==
    \/ Prepare
    \/ \E e \in EntityNames : \E p \in Partitions :
          \/ \E c \in Counts : SaveCount(e, p, c)
          \/ \E names \in NameLists : SaveNames(e, p, names)
          \/ HasCount(e, p)
          \/ LoadCount(e, p)
          \/ HasNames(e, p)
          \/ LoadNames(e, p)

SpecEntity == InitEntity /\ [][NextEntity]_vars

----------------------------------------------------------------------------
(* What a session's log says its file must hold *)

LhsTensors(es) == Flatten([i \in 1..Len(es) |-> es[i].lhs.tensor])
RhsTensors(es) == Flatten([i \in 1..Len(es) |-> es[i].rhs.tensor])
RelTensors(es) == Flatten([i \in 1..Len(es) |-> es[i].rel])
LhsData(es) == Flatten([i \in 1..Len(es) |-> es[i].lhs.tensor_list.data])
RhsData(es) == Flatten([i \in 1..Len(es) |-> es[i].rhs.tensor_list.data])

NoRaggedData(es) ==
    \A i \in 1..Len(es) :
        /\ es[i].lhs.tensor_list.data = <<>>
        /\ es[i].rhs.tensor_list.data = <<>>

RaggedNames == {"lhsd_offsets", "lhsd_data", "rhsd_offsets", "rhsd_data"}

\* every value the session gave to a column is in the file, in order: the
\* dense columns whole, the ragged data whole, and the offsets column ends
\* where the data ends
CompleteOutput(file, es) ==
    /\ \A n \in DOMAIN file.cols : n \in {"lhs", "rhs", "rel"} \cup RaggedNames
    /\ es # <<>> => {"lhs", "rhs", "rel"} \subseteq DOMAIN file.cols
    /\ "lhs" \in DOMAIN file.cols => file.cols["lhs"] = LhsTensors(es)
    /\ "rhs" \in DOMAIN file.cols => file.cols["rhs"] = RhsTensors(es)
    /\ "rel" \in DOMAIN file.cols => file.cols["rel"] = RelTensors(es)
    /\ LhsData(es) # <<>> => "lhsd_data" \in DOMAIN file.cols
    /\ RhsData(es) # <<>> => "rhsd_data" \in DOMAIN file.cols
    /\ "lhsd_data" \in DOMAIN file.cols =>
          /\ file.cols["lhsd_data"] = LhsData(es)
          /\ "lhsd_offsets" \in DOMAIN file.cols
          /\ file.cols["lhsd_offsets"] # <<>>
          /\ file.cols["lhsd_offsets"][Len(file.cols["lhsd_offsets"])]
                = Len(LhsData(es))
    /\ "rhsd_data" \in DOMAIN file.cols =>
          /\ file.cols["rhsd_data"] = RhsData(es)
          /\ "rhsd_offsets" \in DOMAIN file.cols
          /\ file.cols["rhsd_offsets"] # <<>>
          /\ file.cols["rhsd_offsets"][Len(file.cols["rhsd_offsets"])]
                = Len(RhsData(es))

----------------------------------------------------------------------------
(* C1 *)

\* C1: a session whose body raised never renames the temporary file: from
\* the raise on, the final path holds what it held when the session was
\* opened (nothing, or the identical earlier shard), and the temporary
\* file is still at its own path.
C1_FailedSessionNotPublished ==
    raised =>
        /\ final = finalAtOpen
        /\ tmp.exists

\* a failed overwrite: a shard was there, the session appended and raised
C1_Witness ==
    /\ raised
    /\ outcome = "failed"
    /\ finalAtOpen.exists
    /\ "lhs" \in DOMAIN finalAtOpen.cols
    /\ "lhs" \in DOMAIN tmp.cols
    /\ tmp.cols["lhs"] # <<>>
    /\ tmp # final

----------------------------------------------------------------------------
(* C2 *)

\* C2: whenever has_edges is true, the file at the final path holds every
\* value of the session that produced it, and a chunk a reader loads beside
\* the writer is the slice of that session's edges.
C2_NoIntermediateStateVisible ==
    /\ has_edges(final) => CompleteOutput(final, published)
    /\ (ret.op = "load_chunk_of_edges" /\ ret.status = "ok") =>
          /\ ret.lhs.tensor = SubSeq(LhsTensors(published), ret.begin + 1, ret.end)
          /\ ret.rhs.tensor = SubSeq(RhsTensors(published), ret.begin + 1, ret.end)
          /\ ret.rel = SubSeq(RelTensors(published), ret.begin + 1, ret.end)

\* a reader loads the published shard while a later session has values in
\* its buffers
C2_Witness ==
    /\ pc = "body"
    /\ ret.op = "load_chunk_of_edges"
    /\ ret.status = "ok"
    /\ ret.rel # <<>>
    /\ \E n \in DOMAIN datasets : datasets[n].buffer_offset > 0

----------------------------------------------------------------------------
(* C3 *)

\* C3: after the last flush the on-disk column is the concatenation of the
\* appended chunks, whatever the capacity and the chunk sizes.
C3_BufferedRoundTrip ==
    pc = "flushed" => datasets[ColName].dataset = Flatten(log)

\* chunks that are empty, below, at and above the capacity
C3_Witness ==
    /\ pc = "flushed"
    /\ BUFFER_SIZE = 2
    /\ \E i \in 1..Len(log) : Len(log[i]) = 0
    /\ \E i \in 1..Len(log) : Len(log[i]) = 1
    /\ \E i \in 1..Len(log) : Len(log[i]) = BUFFER_SIZE
    /\ \E i \in 1..Len(log) : Len(log[i]) > BUFFER_SIZE
    /\ Len(datasets[ColName].dataset) = 6

----------------------------------------------------------------------------
(* C4, C5 *)

LoadedOk == ret.op = "load_chunk_of_edges" /\ ret.status = "ok"

\* the range of chunk i of n of the shard at the final path
RangeOf(i, n) ==
    LET r == load_chunk_of_edges(final, i, n)
    IN  [begin |-> r.begin, end |-> r.end]

\* C4: the ranges of the chunks of a shard tile [0, num_edges): the first
\* begins at 0, each ends where the next begins, none is reversed, the last
\* ends at num_edges; so every edge index is in exactly one chunk.
C4_ChunkTiling ==
    LoadedOk =>
        LET n == ret.num_chunks
            i == ret.chunk_idx
            num_edges == NumEdges(published)
        IN  /\ ret.begin <= ret.end
            /\ i = 0 => ret.begin = 0
            /\ i = n - 1 => ret.end = num_edges
            /\ i < n - 1 => RangeOf(i + 1, n).begin = ret.end
            /\ Len(ret.rel) = ret.end - ret.begin
            /\ \A j \in 0..(num_edges - 1) :
                  Cardinality({c \in 0..(n - 1) :
                      RangeOf(c, n).begin <= j /\ j < RangeOf(c, n).end}) = 1

C4_Witness ==
    /\ LoadedOk
    /\ NumEdges(published) = 5
    /\ ret.num_chunks = 3
    /\ ret.chunk_idx = 1
    /\ ret.begin < ret.end

C5_Case ==
    /\ LoadedOk
    /\ NumEdges(published) = 5
    /\ ret.chunk_idx = 1
    /\ ret.num_chunks = 2

\* C5 as stated: chunk 1 of 2 of a 5-edge shard is the range [3,5), the
\* last 2 edges.
C5_AsStated ==
    C5_Case =>
        /\ ret.begin = 3
        /\ ret.end = 5
        /\ ret.rel = SubSeq(RelTensors(published), 4, 5)

\* C5 (amended): chunk 1 of 2 of a 5-edge shard is the range [2,5), the
\* last 3 edges.
C5_LastThreeEdges ==
    C5_Case =>
        /\ ret.begin = 2
        /\ ret.end = 5
        /\ ret.lhs.tensor = SubSeq(LhsTensors(published), 3, 5)
        /\ ret.rhs.tensor = SubSeq(RhsTensors(published), 3, 5)
        /\ ret.rel = SubSeq(RelTensors(published), 3, 5)

C5_Witness == C5_Case /\ Len(ret.rel) = 3

----------------------------------------------------------------------------
(* C6 *)

\* [[1,2],[3]] and then [[],[4,5,6]] were appended, and records [1,3) read
C6_Case ==
    /\ pc = "closed"
    /\ log = << [offsets |-> <<0, 2, 3>>, data |-> <<1, 2, 3>>],
                [offsets |-> <<0, 0, 3>>, data |-> <<4, 5, 6>>] >>
    /\ ret.op = "read_dynamic"
    /\ ret.begin = 1
    /\ ret.end = 3

\* C6 as stated: the read yields the records [[3],[],[4,5,6]].
C6_AsStated ==
    C6_Case =>
        /\ ret.value.status = "ok"
        /\ ret.value.offsets[1] = 0
        /\ Records(ret.value) = << <<3>>, <<>>, <<4, 5, 6>> >>

\* C6 (amended): the read yields the two records [[3],[]], offsets
\* [0,1,1] starting at 0 and data [3].
C6_RecordsOneAndTwo ==
    C6_Case =>
        /\ ret.value.status = "ok"
        /\ ret.value.offsets = <<0, 1, 1>>
        /\ ret.value.data = <<3>>
        /\ Records(ret.value) = << <<3>>, <<>> >>

C6_Witness == C6_Case /\ ret.value.status = "ok"

----------------------------------------------------------------------------
(* C7 *)

\* the length of a column of the open session, buffered plus flushed
ColumnLen(name) ==
    Len(datasets[name].dataset) + datasets[name].buffer_offset

\* C7 as stated: while append_edges calls are made, an offsets column that
\* exists holds one entry more than the edges appended so far.
C7_OffsetsAlignedWithEdges ==
    pc = "body" =>
        /\ "lhsd_offsets" \in DOMAIN datasets =>
              ColumnLen("lhsd_offsets") = NumEdges(log) + 1
        /\ "rhsd_offsets" \in DOMAIN datasets =>
              ColumnLen("rhsd_offsets") = NumEdges(log) + 1

----------------------------------------------------------------------------
(* C8 *)

\* C8 as stated: the file a successful session renames to the final path
\* carries format_version 1 and lhs, rhs, rel of one length, and load_edges
\* on it succeeds and returns that many edges.
C8_PublishedShardValid ==
    outcome = "published" =>
        /\ ~ version_mismatch(final.attrs)
        /\ {"lhs", "rhs", "rel"} \subseteq DOMAIN final.cols
        /\ Len(final.cols["lhs"]) = Len(final.cols["rel"])
        /\ Len(final.cols["rhs"]) = Len(final.cols["rel"])
        /\ LET r == load_chunk_of_edges(final, 0, 1)
           IN  /\ r.status = "ok"
               /\ Len(r.rel) = NumEdges(published)

----------------------------------------------------------------------------
(* C9 *)

ZeroOffsets(tl, begin, end) ==
    /\ tl.offsets = [i \in 1..(end - begin + 1) |-> 0]
    /\ tl.data = <<>>

\* ranges [begin, end) tried on a shard, also beyond its edges
MaxRange == MaxEdges * MaxAppends + 1

\* C9: a session whose edge lists all have empty ragged data on both
\* endpoints publishes a shard without lhsd_* and rhsd_* columns, and
\* read_dynamic on it returns end-begin+1 zero offsets and no data for
\* every range with begin <= end.
C9_DynamicColumnsOmitted ==
    (outcome = "published" /\ NoRaggedData(published)) =>
        /\ DOMAIN final.cols \cap RaggedNames = {}
        /\ \A key \in {"lhsd", "rhsd"} :
           \A begin \in 0..MaxRange : \A end \in begin..MaxRange :
              LET r == read_dynamic(final, key, begin, end)
              IN  r.status = "ok" /\ ZeroOffsets(r, begin, end)
        /\ LoadedOk =>
              /\ ZeroOffsets(ret.lhs.tensor_list, ret.begin, ret.end)
              /\ ZeroOffsets(ret.rhs.tensor_list, ret.begin, ret.end)

\* two appended edge lists without ragged data, and a chunk of them loaded
C9_Witness ==
    /\ outcome = "published"
    /\ NoRaggedData(published)
    /\ Len(published) = 2
    /\ NumEdges(published) >= 2
    /\ LoadedOk
    /\ ret.end - ret.begin >= 1

----------------------------------------------------------------------------
(* C10 *)

LoadCalled == ret.op = "load_chunk_of_edges"

\* C10: load_chunk_of_edges fails with the missing-file error when no shard
\* is at the final path, and with the version error, before it reads any
\* column, when format_version is absent or not 1; the call leaves every
\* file of the storage as it was.
C10_ReaderErrors ==
    /\ [](LoadCalled =>
            /\ ~ final.exists =>
                  /\ ret.status = "RuntimeError: does not exist"
                  /\ ret.reads = {}
            /\ (final.exists /\ FORMAT_VERSION_ATTR \notin DOMAIN final.attrs) =>
                  /\ ret.status = "RuntimeError: version mismatch"
                  /\ ret.reads = {}
            /\ (final.exists /\ FORMAT_VERSION_ATTR \in DOMAIN final.attrs
                  /\ final.attrs[FORMAT_VERSION_ATTR] # 1) =>
                  /\ ret.status = "RuntimeError: version mismatch"
                  /\ ret.reads = {})
    /\ [][LoadCalled' => (final' = final /\ tmp' = tmp)]_vars

\* a load of a shard that has columns but no format_version attribute
C10_Witness ==
    /\ LoadCalled
    /\ final.exists
    /\ FORMAT_VERSION_ATTR \notin DOMAIN final.attrs
    /\ "rel" \in DOMAIN final.cols
    /\ final.cols["rel"] # <<>>
    /\ ret.status = "RuntimeError: version mismatch"

----------------------------------------------------------------------------
(* C11 *)

\* C11: a session that finds the temporary file of an aborted session
\* starts from a new, empty temporary file; when it is published the shard
\* holds exactly the edges appended in this session, in order, with no
\* column that this session did not write, and no temporary file remains.
C11_RetryStartsClean ==
    /\ (retry /\ pc = "opened") =>
          tmp = [MkFile(EmptyMap, EmptyMap) EXCEPT !.open = TRUE]
    /\ (retry /\ outcome = "published") =>
          /\ published = log
          /\ CompleteOutput(final, log)
          /\ LhsData(log) = <<>> =>
                {"lhsd_offsets", "lhsd_data"} \cap DOMAIN final.cols = {}
          /\ RhsData(log) = <<>> =>
                {"rhsd_offsets", "rhsd_data"} \cap DOMAIN final.cols = {}
          /\ ~ tmp.exists

\* a session found a stale temporary file, appended edges and published
C11_Witness ==
    /\ retry
    /\ outcome = "published"
    /\ log # <<>>
    /\ final.cols["lhs"] # <<>>
    /\ ~ tmp.exists

----------------------------------------------------------------------------
(* C12 *)

\* the saves of one key that completed, by their position in the history
SavesOf(kind, entity_name, partition) ==
    {i \in 1..Len(saved) : /\ saved[i].kind = kind
                           /\ saved[i].entity_name = entity_name
                           /\ saved[i].partition = partition}

LastSaved(kind, entity_name, partition) ==
    LET idx == SavesOf(kind, entity_name, partition)
    IN  saved[CHOOSE i \in idx : \A j \in idx : j <= i].value

\* what has and load must answer for a key after the saves so far
Lifecycle(kind, entity_name, partition, has, load) ==
    IF SavesOf(kind, entity_name, partition) = {}
    THEN /\ ~ has
         /\ load = [status |-> "CouldNotLoadData"]
    ELSE /\ has
         /\ load = [status |-> "ok",
                    value |-> LastSaved(kind, entity_name, partition)]

\* C12: for every key, load_count raises CouldNotLoadData exactly when no
\* save_count of that key has completed, which are the states where
\* has_count is false, and else returns the count of the most recent
\* save_count of that key, whatever was saved to other keys; likewise
\* for names.  The calls that were made answered so.
C12_CountNameLifecycle ==
    /\ \A e \in EntityNames : \A p \in Partitions :
          /\ Lifecycle("count", e, p, has_count(dir, e, p),
                       load_count(dir, get_count_file(e, p)))
          /\ Lifecycle("names", e, p, has_names(dir, e, p),
                       load_names(dir, get_names_file(e, p)))
    /\ ret.op = "load" =>
          Lifecycle(ret.kind, ret.entity_name, ret.partition,
                    ret.result.status = "ok", ret.result)
    /\ ret.op = "has" =>
          (ret.result <=> SavesOf(ret.kind, ret.entity_name,
                                  ret.partition) # {})

\* a count was saved twice to one key and a count to another key of the
\* same entity type; load_count returned the second value of the first
\* key, while a key never saved to has no file
C12_Witness ==
    /\ Len(saved) = 2
    /\ saved[1].kind = "count"
    /\ saved[2].kind = "count"
    /\ saved[1].entity_name = saved[2].entity_name
    /\ saved[1].partition # saved[2].partition
    /\ ret.op = "load"
    /\ ret.kind = "count"
    /\ ret.entity_name = saved[1].entity_name
    /\ ret.partition = saved[1].partition
    /\ ret.result = [status |-> "ok", value |-> MaxCount]
    /\ \E e \in EntityNames : \E p \in Partitions :
          load_count(dir, get_count_file(e, p)).status = "CouldNotLoadData"

----------------------------------------------------------------------------
(* C13 *)

\* C13: no assert of flush_buffer has failed; every flush made during an
\* append wrote BUFFER_SIZE values, so that before the last flush the
\* column on disk holds BUFFER_SIZE values per flush; and after every
\* append the buffer is not full.
C13_FlushOnlyAtCapacity ==
    LET bd == datasets[ColName]
    IN  /\ bd.asserts_ok
        /\ bd.buffer_offset < BUFFER_SIZE
        /\ \A i \in 1..Len(bd.flushes) :
              ~ bd.flushes[i].last => bd.flushes[i].n = BUFFER_SIZE
        /\ pc = "appending" =>
              /\ \A i \in 1..Len(bd.flushes) : ~ bd.flushes[i].last
              /\ Len(bd.dataset) = BUFFER_SIZE * Len(bd.flushes)

\* appends that filled the buffer several times and left it part full
C13_Witness ==
    LET bd == datasets[ColName]
    IN  /\ pc = "appending"
        /\ BUFFER_SIZE >= 2
        /\ Len(bd.flushes) >= 2
        /\ bd.buffer_offset > 0
        /\ Len(log) >= 3

----------------------------------------------------------------------------
(* C14 *)

\* C14: after every append the length of the column on disk plus
\* buffer_offset is total_data, which is the number of values appended so
\* far; after the last flush buffer_offset is 0 and the column on disk has
\* that many values.
C14_LengthAccounting ==
    LET bd == datasets[ColName]
    IN  /\ Len(bd.dataset) + bd.buffer_offset = bd.total_data
        /\ bd.total_data = SumLen(log)
        /\ pc = "flushed" =>
              /\ bd.buffer_offset = 0
              /\ Len(bd.dataset) = SumLen(log)

\* values on disk and values in the buffer at the same time, after appends
\* of different sizes
C14_Witness ==
    LET bd == datasets[ColName]
    IN  /\ pc = "appending"
        /\ bd.dataset # <<>>
        /\ bd.buffer_offset > 0
        /\ Len(log) >= 2
        /\ Len(log[1]) # Len(log[2])
        /\ bd.total_data > Len(log)

----------------------------------------------------------------------------
(* C15 *)

FullFlushes(T, C) == [i \in 1..(T \div C) |-> [n |-> C, last |-> FALSE]]

\* C15: with T values appended to a column of capacity C, the appends made
\* floor(T / C) flushes of C values each; the last flush writes one more
\* chunk of T mod C values, or nothing when that is 0, and the column on
\* disk then has T values.
C15_FlushCount ==
    LET bd == datasets[ColName]
        T == SumLen(log)
        C == BUFFER_SIZE
    IN  /\ pc = "appending" => bd.flushes = FullFlushes(T, C)
        /\ pc = "flushed" =>
              /\ bd.flushes = FullFlushes(T, C) \o
                    (IF T % C = 0
                     THEN <<>>
                     ELSE <<[n |-> T % C, last |-> TRUE]>>)
              /\ Len(bd.dataset) = T

\* T = 5 and C = 2: two flushes of 2 and a last flush of 1, 5 values on disk
C15_Witness ==
    LET bd == datasets[ColName]
    IN  /\ pc = "flushed"
        /\ BUFFER_SIZE = 2
        /\ SumLen(log) = 5
        /\ bd.flushes = <<[n |-> 2, last |-> FALSE], [n |-> 2, last |-> FALSE],
                          [n |-> 1, last |-> TRUE]>>
        /\ Len(bd.dataset) = 5

----------------------------------------------------------------------------
(* C16 *)

\* the values a column writer has accepted: those it wrote and those in
\* its buffer
Accepted(bd) == bd.dataset \o SubSeq(bd.buffer, 1, bd.buffer_offset)

IsPrefix(p, q) == Len(p) <= Len(q) /\ SubSeq(q, 1, Len(p)) = p

ScopeLeft == pc \in {"closed_ok", "closed_err"}

\* C16: when the body of a session ends, by returning or by raising, the
\* step that leaves the scope writes to the temporary file every value that
\* every column writer created so far has accepted and closes the file,
\* and does not touch the final path; so the closed file holds at least
\* the edges of the append_edges calls that returned, and the temporary
\* file is renamed only when it is closed and no writer is left.
C16_CleanupOnEveryExit ==
    /\ [](ScopeLeft =>
            /\ tmp.exists
            /\ ~ tmp.open
            /\ datasets = EmptyMap
            /\ log # <<>> =>
                  /\ IsPrefix(LhsTensors(log), tmp.cols["lhs"])
                  /\ IsPrefix(RhsTensors(log), tmp.cols["rhs"])
                  /\ IsPrefix(RelTensors(log), tmp.cols["rel"]))
    /\ [][(pc \in {"raised", "returned"} /\ pc' # pc) =>
            /\ ScopeLeft'
            /\ DOMAIN tmp'.cols = DOMAIN datasets
            /\ \A n \in DOMAIN datasets : tmp'.cols[n] = Accepted(datasets[n])
            /\ final' = final]_vars
    /\ [][(tmp.exists /\ ~ tmp'.exists) =>
            /\ ~ tmp.open
            /\ datasets = EmptyMap
            /\ final' = tmp]_vars

\* append_edges raised after its first statements, and the values that were
\* only in the buffers are in the closed temporary file
C16_Witness ==
    /\ pc = "closed_err"
    /\ raised
    /\ log # <<>>
    /\ ~ tmp.open
    /\ Len(tmp.cols["lhs"]) > Len(LhsTensors(log))
    /\ Len(tmp.cols["lhs"]) < BUFFER_SIZE

----------------------------------------------------------------------------
(* C17 *)

Stamped(file) ==
    /\ FORMAT_VERSION_ATTR \in DOMAIN file.attrs
    /\ file.attrs[FORMAT_VERSION_ATTR] = FORMAT_VERSION

\* C17: the temporary file has the attribute format_version = 1 whenever
\* it has a column or the appender has a column writer, and from the
\* moment the body of the session can run.
C17_StampBeforeColumns ==
    /\ (tmp.exists /\ (DOMAIN tmp.cols # {} \/ DOMAIN datasets # {})) =>
          Stamped(tmp)
    /\ pc \in {"body", "raised", "returned"} => Stamped(tmp)

\* an open session whose temporary file has values on disk and in buffers
C17_Witness ==
    /\ pc = "body"
    /\ Stamped(tmp)
    /\ \E n \in DOMAIN tmp.cols : tmp.cols[n] # <<>>
    /\ \E n \in DOMAIN datasets : datasets[n].buffer_offset > 0

----------------------------------------------------------------------------
(* C18 *)

\* the records of the appended tensor lists, in the order of the appends
AllRecords == Flatten([i \in 1..Len(log) |-> Records(log[i])])

\* C18: read_dynamic of the records [begin, end) of a column built by
\* append_tensor_list calls, 0 <= begin <= end <= the number of records,
\* returns end - begin + 1 offsets that start at 0 and do not decrease,
\* as many data values as the last offset says, and record by record the
\* records begin .. end - 1 of the appended lists.
C18_RaggedSliceRead ==
    ret.op = "read_dynamic" =>
        LET v == ret.value
            n == ret.end - ret.begin
        IN  /\ v.status = "ok"
            /\ Len(v.offsets) = n + 1
            /\ v.offsets[1] = 0
            /\ \A i \in 1..n : v.offsets[i] <= v.offsets[i + 1]
            /\ Len(v.data) = v.offsets[n + 1]
            /\ Records(v) = SubSeq(AllRecords, ret.begin + 1, ret.end)

\* a slice that starts after the first record of the first list and ends
\* inside the second list, with values from both
C18_Witness ==
    /\ ret.op = "read_dynamic"
    /\ Len(log) = 2
    /\ ret.begin >= 1
    /\ ret.begin < Len(log[1].offsets) - 1
    /\ ret.end > Len(log[1].offsets) - 1
    /\ ret.value.status = "ok"
    /\ \E x \in 1..Len(ret.value.data) : ret.value.data[x] > Len(log[1].data)
    /\ \E x \in 1..Len(ret.value.data) : ret.value.data[x] <= Len(log[1].data)

----------------------------------------------------------------------------
(* C19 *)

\* C19: a load_chunk_of_edges call on a shard of the supported version
\* succeeds and issues no read of an empty range: none of lhs, rhs, rel
\* when begin = end, none of a ragged data column when the offsets read
\* say the slice has no data; the edge list it returns has end - begin
\* edges and end - begin records on each side.
C19_NoEmptyRead ==
    (LoadCalled /\ final.exists /\ ~ version_mismatch(final.attrs)) =>
        /\ ret.status = "ok"
        /\ \A r \in ret.reads : r.begin < r.end
        /\ ret.begin = ret.end =>
              \A r \in ret.reads : r.name \notin {"lhs", "rhs", "rel"}
        /\ ret.lhs.tensor_list.data = <<>> =>
              \A r \in ret.reads : r.name # "lhsd_data"
        /\ ret.rhs.tensor_list.data = <<>> =>
              \A r \in ret.reads : r.name # "rhsd_data"
        /\ Len(ret.lhs.tensor) = ret.end - ret.begin
        /\ Len(ret.rhs.tensor) = ret.end - ret.begin
        /\ Len(ret.rel) = ret.end - ret.begin
        /\ Len(ret.lhs.tensor_list.offsets) = ret.end - ret.begin + 1
        /\ Len(ret.rhs.tensor_list.offsets) = ret.end - ret.begin + 1

\* an empty chunk of a shard that has edges and ragged columns: only the
\* offsets were read
C19_Witness ==
    /\ LoadedOk
    /\ ret.begin = ret.end
    /\ final.cols["rel"] # <<>>
    /\ "lhsd_data" \in DOMAIN final.cols
    /\ final.cols["lhsd_data"] # <<>>
    /\ ret.reads # {}
    /\ ret.rel = <<>>

----------------------------------------------------------------------------
(* C20 *)

ChunkSize(i, num_edges, num_chunks) ==
    chunk_end(i, num_edges, num_chunks) - chunk_begin(i, num_edges, num_chunks)

\* C20: the size of every chunk of a shard is the floor or the ceiling of
\* num_edges / num_chunks, and the sizes of two chunks differ by at most 1.
C20_BalancedChunks ==
    LoadedOk =>
        LET n == ret.num_chunks
            num_edges == Len(final.cols["rel"])
            floor == num_edges \div n
            ceil == (num_edges + n - 1) \div n
        IN  /\ ret.end - ret.begin \in {floor, ceil}
            /\ \A i \in 0..(n - 1) :
                  /\ ChunkSize(i, num_edges, n) \in {floor, ceil}
                  /\ \A j \in 0..(n - 1) :
                        ChunkSize(i, num_edges, n) - ChunkSize(j, num_edges, n)
                            \in {-1, 0, 1}

\* a shard whose edges do not divide evenly: a chunk of the larger size
\* was loaded, and an earlier chunk has the smaller size
C20_Witness ==
    /\ LoadedOk
    /\ Len(final.cols["rel"]) % ret.num_chunks # 0
    /\ Len(final.cols["rel"]) > ret.num_chunks
    /\ ret.end - ret.begin = (Len(final.cols["rel"]) \div ret.num_chunks) + 1
    /\ ret.chunk_idx > 0
    /\ ChunkSize(0, Len(final.cols["rel"]), ret.num_chunks)
          = Len(final.cols["rel"]) \div ret.num_chunks

----------------------------------------------------------------------------
(* C21 *)

\* the ragged records of the edges of a session, one record per edge
LhsRecords(es) ==
    Flatten([i \in 1..Len(es) |-> Records(es[i].lhs.tensor_list)])

RhsRecords(es) ==
    Flatten([i \in 1..Len(es) |-> Records(es[i].rhs.tensor_list)])

\* the chunks 0 .. n - 1 of the shard at the final path
ChunksOf(n) == [i \in 1..n |-> load_chunk_of_edges(final, i - 1, n)]

\* C21 as stated: for a published shard and every num_chunks, the chunks
\* load, and their lhs, rhs, rel and ragged records concatenated in order
\* are what load_edges returns, which is the concatenation of the edge
\* lists appended in the session that produced the shard; a call made by
\* any reader returned what the shard holds, and no call changes a file.
C21_ChunksComposeToFullRead ==
    /\ [](outcome = "published" =>
            LET full == load_edges(final)
            IN  /\ full.status = "ok"
                /\ full.lhs.tensor = LhsTensors(published)
                /\ full.rhs.tensor = RhsTensors(published)
                /\ full.rel = RelTensors(published)
                /\ Records(full.lhs.tensor_list) = LhsRecords(published)
                /\ Records(full.rhs.tensor_list) = RhsRecords(published)
                /\ \A n \in 1..MaxNumChunks :
                      LET cs == ChunksOf(n)
                      IN  /\ \A i \in 1..n : cs[i].status = "ok"
                          /\ Flatten([i \in 1..n |-> cs[i].lhs.tensor])
                                = full.lhs.tensor
                          /\ Flatten([i \in 1..n |-> cs[i].rhs.tensor])
                                = full.rhs.tensor
                          /\ Flatten([i \in 1..n |-> cs[i].rel]) = full.rel
                          /\ Flatten([i \in 1..n |->
                                        Records(cs[i].lhs.tensor_list)])
                                = Records(full.lhs.tensor_list)
                          /\ Flatten([i \in 1..n |->
                                        Records(cs[i].rhs.tensor_list)])
                                = Records(full.rhs.tensor_list))
    /\ [](LoadCalled =>
            ret = load_chunk_of_edges(final, ret.chunk_idx, ret.num_chunks))
    /\ [][LoadCalled' => (final' = final /\ tmp' = tmp)]_vars

====
